---- MODULE Spec2Model ----
(***************************************************************************)
(* V-HIVRAP (wiseman-s/hivrap): the scenario store kept in per-module      *)
(* directories, the session run history, the Scenario Comparator and the   *)
(* rate mapping of the Host-Protein module.                                *)
(*                                                                         *)
(* Representation.  A Python str that the code inspects (a file name) is a *)
(* sequence of one-character strings.  A Python float in [0,1] is an       *)
(* integer number of twentieths (ONE = 1.0).  A Python value is a record   *)
(* [ty, n, l]; a JSON text is a sequence of lexical tokens [t, s, n].      *)
(***************************************************************************)
EXTENDS Integers, Sequences, FiniteSets, TLC

\* ------------------------------------------------------------------ strings

Front(s) == SubSeq(s, 1, Len(s) - 1)

Last(s) == s[Len(s)]

\* str.endswith
EndsWith(s, suf) ==
    /\ Len(s) >= Len(suf)
    /\ SubSeq(s, Len(s) - Len(suf) + 1, Len(s)) = suf

\* str.strip: leading and trailing whitespace removed
RECURSIVE LStrip(_)
LStrip(s) == IF s # <<>> /\ Head(s) = " " THEN LStrip(Tail(s)) ELSE s

RECURSIVE RStrip(_)
RStrip(s) == IF s # <<>> /\ Last(s) = " " THEN RStrip(Front(s)) ELSE s

Strip(s) == RStrip(LStrip(s))

JSON_EXT == <<".", "j", "s", "o", "n">>

\* str.split("/")
RECURSIVE SplitAcc(_, _, _)
SplitAcc(s, cur, acc) ==
    IF s = <<>> THEN Append(acc, cur)
    ELSE IF Head(s) = "/" THEN SplitAcc(Tail(s), <<>>, Append(acc, cur))
    ELSE SplitAcc(Tail(s), Append(cur, Head(s)), acc)

SplitPath(s) == SplitAcc(s, <<>>, <<>>)

\* ------------------------------------------------------------ directories

RESISTANCE_DIR ==
    <<"r","e","s","i","s","t","a","n","c","e","_","s","c","e","n","a","r","i","o","s">>

SAVED_DIR == <<"s","a","v","e","d","_","s","c","e","n","a","r","i","o","s">>

VR_DIR == <<"v","r","_","s","c","e","n","a","r","i","o","s">>

ENGINE == "Resistance Engine"

HOST == "Host-Protein Suppression"

VR == "VR / Advanced Visualization"

KG == "Knowledge Graph + GNN"

\* the comparator's module -> directory table
SCENARIO_DIRS == (ENGINE :> RESISTANCE_DIR) @@ (HOST :> SAVED_DIR) @@ (VR :> VR_DIR)

\* os.path.join(dir, name): an absolute name replaces the directory
PathJoin(dir, name) ==
    IF name # <<>> /\ Head(name) = "/" THEN name
    ELSE dir \o <<"/">> \o name

DOTDOT == <<".", ".">>

ROOT == <<"/">>

\* a directory is a sequence of components below the working directory <<>>;
\* the parents of the working directory and the root always exist
ParentDir(d) ==
    IF d = <<>> \/ Last(d) = DOTDOT THEN Append(d, DOTDOT)
    ELSE IF d = <<ROOT>> THEN d
    ELSE Front(d)

DirExists(d, ds) ==
    \/ d \in ds
    \/ d = <<ROOT>>
    \/ \A i \in 1..Len(d) : d[i] = DOTDOT

\* the kernel's walk over the directory components of a path: each step must
\* land in an existing directory (ENOENT otherwise)
RECURSIVE Walk(_, _, _)
Walk(comps, cur, ds) ==
    IF comps = <<>> THEN [ok |-> TRUE, dir |-> cur]
    ELSE LET c == Head(comps)
             nxt == IF c = <<>> \/ c = <<".">> THEN cur
                    ELSE IF c = DOTDOT THEN ParentDir(cur)
                    ELSE Append(cur, c)
         IN IF DirExists(nxt, ds) THEN Walk(Tail(comps), nxt, ds)
            ELSE [ok |-> FALSE, dir |-> <<>>]

\* the file a path string names: [ok, path]; ok is FALSE when a directory on
\* the way is missing or the last component names no file
ResolvePath(p, ds) ==
    LET comps == SplitPath(p)
        start == IF p # <<>> /\ Head(p) = "/" THEN <<ROOT>> ELSE <<>>
        w == Walk(Front(comps), start, ds)
        f == Last(comps)
    IN IF w.ok /\ f # <<>> /\ f # <<".">> /\ f # DOTDOT
       THEN [ok |-> TRUE, path |-> Append(w.dir, f)]
       ELSE [ok |-> FALSE, path |-> <<>>]

\* ------------------------------------------------------- Python values, JSON

PyFloat(x) == [ty |-> "float", n |-> x, l |-> <<>>]

PyInt(x) == [ty |-> "int", n |-> x, l |-> <<>>]

PyBool(b) == [ty |-> "bool", n |-> IF b THEN 1 ELSE 0, l |-> <<>>]

PyList(xs) == [ty |-> "list", n |-> 0, l |-> xs]

PyStr(cs) == [ty |-> "str", n |-> 0, l |-> cs]

Tok(t) == [t |-> t, s |-> "", n |-> 0]

TokStr(x) == [t |-> "str", s |-> x, n |-> 0]

TokNum(t, x) == [t |-> t, s |-> "", n |-> x]

\* a string value, kept as its characters
TokText(cs) == [t |-> "text", s |-> "", n |-> 0, l |-> cs]

\* the insertion order of the keys of the parameter dictionaries
KEY_ORDER ==
    <<"selected_drugs", "host_activity", "drug_pressure", "mutation_rate", "adherence",
      "gene_editing", "gene_effect", "drug_effectiveness", "num_particles",
      "diabetes", "hypertension", "obesity", "duration", "filename">>

RECURSIVE ListToks(_)
ListToks(xs) ==
    IF xs = <<>> THEN <<>>
    ELSE IF Len(xs) = 1 THEN <<TokStr(xs[1])>>
    ELSE <<TokStr(xs[1]), Tok(",")>> \o ListToks(Tail(xs))

\* the JSON text of one value
ValueToks(v) ==
    IF v.ty = "float" THEN <<TokNum("float", v.n)>>
    ELSE IF v.ty = "int" THEN <<TokNum("int", v.n)>>
    ELSE IF v.ty = "bool" THEN <<Tok(IF v.n = 1 THEN "true" ELSE "false")>>
    ELSE IF v.ty = "str" THEN <<TokText(v.l)>>
    ELSE <<Tok("[")>> \o ListToks(v.l) \o <<Tok("]")>>

RECURSIVE MemberToks(_, _)
MemberToks(d, keys) ==
    IF keys = <<>> THEN <<>>
    ELSE LET k == Head(keys)
             rest == MemberToks(d, Tail(keys))
         IN <<TokStr(k), Tok(":")>> \o ValueToks(d[k])
              \o (IF rest = <<>> THEN <<>> ELSE <<Tok(",")>> \o rest)

\* json.dump of a dict: its members in insertion order
JsonDump(d) ==
    <<Tok("{")>>
      \o MemberToks(d, SelectSeq(KEY_ORDER, LAMBDA k : k \in DOMAIN d))
      \o <<Tok("}")>>

JsonFail == [ok |-> FALSE, val |-> <<>>, next |-> 0]

\* the strings of a JSON array, from the token after "[" or ","
RECURSIVE ParseList(_, _, _)
ParseList(toks, i, acc) ==
    IF i > Len(toks) THEN JsonFail
    ELSE IF toks[i].t = "]" /\ acc = <<>> THEN [ok |-> TRUE, val |-> PyList(acc), next |-> i + 1]
    ELSE IF toks[i].t # "str" \/ i + 1 > Len(toks) THEN JsonFail
    ELSE IF toks[i + 1].t = "]"
         THEN [ok |-> TRUE, val |-> PyList(Append(acc, toks[i].s)), next |-> i + 2]
    ELSE IF toks[i + 1].t = "," THEN ParseList(toks, i + 2, Append(acc, toks[i].s))
    ELSE JsonFail

ParseValue(toks, i) ==
    IF i > Len(toks) THEN JsonFail
    ELSE IF toks[i].t = "float" THEN [ok |-> TRUE, val |-> PyFloat(toks[i].n), next |-> i + 1]
    ELSE IF toks[i].t = "int" THEN [ok |-> TRUE, val |-> PyInt(toks[i].n), next |-> i + 1]
    ELSE IF toks[i].t = "true" THEN [ok |-> TRUE, val |-> PyBool(TRUE), next |-> i + 1]
    ELSE IF toks[i].t = "false" THEN [ok |-> TRUE, val |-> PyBool(FALSE), next |-> i + 1]
    ELSE IF toks[i].t = "[" THEN ParseList(toks, i + 1, <<>>)
    ELSE JsonFail

\* the members of a JSON object, from the token after "{" or ","; text after
\* the closing brace is an error ("Extra data")
RECURSIVE ParseMembers(_, _, _)
ParseMembers(toks, i, acc) ==
    IF i + 1 > Len(toks) \/ toks[i].t # "str" \/ toks[i + 1].t # ":" THEN JsonFail
    ELSE LET v == ParseValue(toks, i + 2)
             acc2 == (toks[i].s :> v.val) @@ acc
         IN IF ~v.ok \/ v.next > Len(toks) THEN JsonFail
            ELSE IF toks[v.next].t = "}"
                 THEN IF v.next = Len(toks)
                      THEN [ok |-> TRUE, val |-> acc2, next |-> v.next + 1]
                      ELSE JsonFail
            ELSE IF toks[v.next].t = "," THEN ParseMembers(toks, v.next + 1, acc2)
            ELSE JsonFail

JsonLoadMut(toks) ==
    IF Len(toks) < 2 \/ toks[1].t # "{" THEN [ok |-> TRUE, val |-> <<>>, next |-> 1]
    ELSE ParseMembers(toks, 2, <<>>)

\* json.load of a whole file: [ok, val]; ok is FALSE for JSONDecodeError
JsonLoad(toks) ==
    IF Len(toks) < 2 \/ toks[1].t # "{" THEN JsonFail
    ELSE IF toks[2].t = "}" THEN (IF Len(toks) = 2
                                  THEN [ok |-> TRUE, val |-> <<>>, next |-> 3]
                                  ELSE JsonFail)
    ELSE ParseMembers(toks, 2, <<>>)

\* what a write of `new` at offset 0 leaves of a file that holds `old`
Overlay(old, new) == new \o SubSeq(old, Len(new) + 1, Len(old))

\* ------------------------------------------------------------- parameters

\* 1.0 in the fixed-point unit of the [0,1] sliders (steps of 0.05)
ONE == 20

UnitRange == 0..ONE

\* mutation_rate slider, 0.001 .. 0.05, in thousandths
MutationRange == 1..50

EngineDurationRange == 50..200

HostDurationRange == 50..300

ParticleRange == 20..200

REAL_DRUGS == <<"Tenofovir", "Lamivudine", "Dolutegravir", "Efavirenz">>

Range(seq) == {seq[i] : i \in 1..Len(seq)}

\* the engine's params before a scenario is loaded
EngineDefaults ==
    [selected_drugs |-> PyList(<<"Tenofovir">>), drug_pressure |-> PyFloat(12),
     mutation_rate |-> PyFloat(10), adherence |-> PyFloat(16), duration |-> PyInt(100)]

ENGINE_KEYS == {"selected_drugs", "drug_pressure", "mutation_rate", "adherence", "duration"}

\* a second setting of the engine's widgets, at the ends of their ranges
EngineOther ==
    [selected_drugs |-> PyList(<<"Tenofovir", "Lamivudine">>), drug_pressure |-> PyFloat(ONE),
     mutation_rate |-> PyFloat(50), adherence |-> PyFloat(0), duration |-> PyInt(200)]

\* values the user tries to set the engine's widgets to; the last lies beyond
\* the ends of the sliders
EngineCandidates ==
    { EngineDefaults, EngineOther,
      [selected_drugs |-> PyList(<<"Tenofovir">>), drug_pressure |-> PyFloat(ONE + 1),
       mutation_rate |-> PyFloat(0), adherence |-> PyFloat(0 - 1), duration |-> PyInt(0)] }

\* st.slider(label, lo, hi, value): the value lies between lo and hi
SliderOk(range, v) == v.n \in range

\* st.multiselect(label, options, default): the default is among the options
MultiselectOk(v) == v.ty = "list" /\ Range(v.l) \subseteq Range(REAL_DRUGS)

EngineWidgetsOk(p) ==
    /\ MultiselectOk(p["selected_drugs"])
    /\ SliderOk(UnitRange, p["drug_pressure"])
    /\ SliderOk(MutationRange, p["mutation_rate"])
    /\ SliderOk(UnitRange, p["adherence"])
    /\ SliderOk(EngineDurationRange, p["duration"])

\* the widget values of one rerun: the defaults taken from params, or what
\* the user set them to
EngineChoices(p) == {w \in EngineCandidates \cup {[k \in ENGINE_KEYS |-> p[k]]} : EngineWidgetsOk(w)}

\* params after lines 35-39: the five keys overwritten, other keys kept
WithWidgets(p, w) == [k \in DOMAIN p \cup DOMAIN w |-> IF k \in DOMAIN w THEN w[k] ELSE p[k]]

\* default_params of the Host-Protein module
HostDefaults ==
    [selected_drugs |-> PyList(<<"Tenofovir">>), host_activity |-> PyFloat(10),
     adherence |-> PyFloat(16), drug_pressure |-> PyFloat(12), gene_editing |-> PyBool(FALSE),
     gene_effect |-> PyFloat(10), diabetes |-> PyBool(FALSE), hypertension |-> PyBool(FALSE),
     obesity |-> PyBool(FALSE), duration |-> PyInt(120)]

\* values the user tries to set the Host-Protein widgets to; the last lies
\* beyond the ends of the sliders
HostCandidates ==
    { HostDefaults,
      [selected_drugs |-> PyList(<<"Tenofovir", "Dolutegravir">>), host_activity |-> PyFloat(0),
       adherence |-> PyFloat(ONE), drug_pressure |-> PyFloat(ONE), gene_editing |-> PyBool(TRUE),
       gene_effect |-> PyFloat(ONE), diabetes |-> PyBool(TRUE), hypertension |-> PyBool(FALSE),
       obesity |-> PyBool(TRUE), duration |-> PyInt(300)],
      [selected_drugs |-> PyList(<<"Tenofovir">>), host_activity |-> PyFloat(ONE + 1),
       adherence |-> PyFloat(ONE + 1), drug_pressure |-> PyFloat(0 - 1), gene_editing |-> PyBool(TRUE),
       gene_effect |-> PyFloat(ONE + 1), diabetes |-> PyBool(FALSE), hypertension |-> PyBool(FALSE),
       obesity |-> PyBool(FALSE), duration |-> PyInt(0)] }

\* sliders that take any value
HostWidgetsOkMut(p) == TRUE

HostWidgetsOk(p) ==
    /\ MultiselectOk(p["selected_drugs"])
    /\ SliderOk(UnitRange, p["drug_pressure"])
    /\ SliderOk(UnitRange, p["host_activity"])
    /\ SliderOk(UnitRange, p["adherence"])
    /\ SliderOk(UnitRange, p["gene_effect"])
    /\ SliderOk(HostDurationRange, p["duration"])

\* the "Editing Effectiveness" slider is drawn only while gene editing is
\* ticked: otherwise gene_effect keeps the value it had
HostWidgets(old, w) ==
    [w EXCEPT !["gene_effect"] = IF w["gene_editing"].n = 1 THEN @ ELSE old["gene_effect"]]

HostChoices(old) == {HostWidgets(old, w) : w \in {c \in HostCandidates \cup {old} : HostWidgetsOk(c)}}

\* the VR module's initial vr_params
VrDefaults ==
    [selected_drugs |-> PyList(<<"Tenofovir">>), gene_editing |-> PyBool(FALSE),
     gene_effect |-> PyFloat(10), drug_effectiveness |-> PyFloat(13), num_particles |-> PyInt(80)]

VrCandidates ==
    { VrDefaults,
      [selected_drugs |-> PyList(<<>>), gene_editing |-> PyBool(TRUE),
       gene_effect |-> PyFloat(ONE), drug_effectiveness |-> PyFloat(0), num_particles |-> PyInt(20)] }

VrWidgetsOk(p) ==
    /\ MultiselectOk(p["selected_drugs"])
    /\ SliderOk(UnitRange, p["drug_effectiveness"])
    /\ SliderOk(UnitRange, p["gene_effect"])
    /\ SliderOk(ParticleRange, p["num_particles"])

VrWidgets(old, w) ==
    [w EXCEPT !["gene_effect"] = IF w["gene_editing"].n = 1 THEN @ ELSE old["gene_effect"]]

VrChoices(old) == {VrWidgets(old, w) : w \in {c \in VrCandidates \cup {old} : VrWidgetsOk(c)}}

\* ------------------------------------------------------------- file names

NONE == <<"N", "o", "n", "e">>

X_JSON == <<"x">> \o JSON_EXT

Y_JSON == <<"y">> \o JSON_EXT

\* names typed into "Save Scenario As"
NameInputs ==
    { X_JSON,
      <<".", "/">> \o X_JSON,
      <<".", ".", "/">> \o SAVED_DIR \o <<"/">> \o X_JSON,
      <<"s", "/">> \o X_JSON,
      JSON_EXT,
      <<" ">> \o JSON_EXT,
      <<"b", "a", "d">>,
      X_JSON \o <<" ">> }

\* line 44 without its second test
SaveNameValidMut(name) == EndsWith(name, JSON_EXT)

\* the test of line 44
SaveNameValid(name) == EndsWith(name, JSON_EXT) /\ Strip(name) # JSON_EXT

\* ---------------------------------------------------------------- state

Sessions == {1, 2}

VARIABLES
    fs,          \* the files: path (directory components, then file name) -> JSON text
    dirs,        \* the directories that exist below the working directory
    live,        \* the browser sessions that are open
    pc,          \* per session: where its script run stands
    run,         \* per session: the locals of the script run
    out,         \* per session: what the last finished script run reported
    lastSave,    \* per name typed: the params of the last save of it that completed
    hostParams,  \* per session: st.session_state.host_params
    vrParams,    \* per session: st.session_state.vr_params
    simulations, \* per session: st.session_state.simulations, the run history
    rm           \* a computation applied to drawn inputs: [p, r], r[i] computed from p[i]

vars == <<fs, dirs, live, pc, run, out, lastSave, hostParams, vrParams, simulations, rm>>

\* os.listdir(dir) filtered by f.endswith(".json"), over the files `files`
ListingIn(files, d) ==
    {Last(p) : p \in {q \in DOMAIN files : Front(q) = d /\ EndsWith(Last(q), JSON_EXT)}}

Listing(d) == ListingIn(fs, d)

NoRates == [p |-> <<>>, r |-> <<>>]

NoRun == [selected |-> NONE, params |-> <<>>, fpath |-> <<>>, name |-> <<>>, buf |-> <<>>,
          module |-> "", selection |-> <<>>]

NoOut == [op |-> "none", result |-> "none", name |-> <<>>, path |-> <<>>,
          loaded |-> <<>>, handed |-> <<>>, module |-> "", offered |-> {},
          scenarios |-> <<>>, traces |-> <<>>]

\* the resistance module's directory is made when app.py imports the module
InitStore ==
    /\ fs = <<>>
    /\ dirs = {<<RESISTANCE_DIR>>}
    /\ pc = [s \in Sessions |-> "idle"]
    /\ run = [s \in Sessions |-> NoRun]
    /\ out = [s \in Sessions |-> NoOut]
    /\ lastSave = <<>>
    /\ hostParams = [s \in Sessions |-> HostDefaults]
    /\ vrParams = [s \in Sessions |-> VrDefaults]
    /\ simulations = [s \in Sessions |-> <<>>]

Init == InitStore /\ live = {1} /\ rm = NoRates

\* ------------------------------------------------------ Resistance Engine

\* what the engine hands to the resistance computation of lines 51-58
EngineHanded(p) == <<[who |-> ENGINE, p |-> p]>>

\* lines 17-27: list the directory, the user picks "None" or a listed file
EngineList(s, choice) ==
    /\ pc[s] = "idle"
    /\ choice \in {NONE} \cup Listing(<<RESISTANCE_DIR>>)
    /\ run' = [run EXCEPT ![s] = [NoRun EXCEPT !.selected = choice, !.params = EngineDefaults]]
    /\ pc' = [pc EXCEPT ![s] = "eng_listed"]
    /\ UNCHANGED <<fs, dirs, live, out, lastSave, hostParams, vrParams, simulations, rm>>

\* an open that makes the file when it is missing (mode "a+")
OpenReadMut(name, d) ==
    LET r == ResolvePath(PathJoin(d, name), dirs)
    IN [ok |-> r.ok, text |-> IF r.path \in DOMAIN fs THEN fs[r.path] ELSE <<>>,
        path |-> r.path]

\* open(path, "r"): the text of the file, or FileNotFoundError
OpenRead(name, d) ==
    LET r == ResolvePath(PathJoin(d, name), dirs)
    IN IF r.ok /\ r.path \in DOMAIN fs
       THEN [ok |-> TRUE, text |-> fs[r.path], path |-> r.path]
       ELSE [ok |-> FALSE, text |-> <<>>, path |-> <<>>]

\* lines 29-32: open the picked file and json.load it
EngineLoad(s) ==
    /\ pc[s] = "eng_listed"
    /\ LET sel == run[s].selected
           f == OpenRead(sel, RESISTANCE_DIR)
           j == JsonLoad(f.text)
       IN IF sel = NONE
          THEN /\ pc' = [pc EXCEPT ![s] = "eng_inputs"]
               /\ UNCHANGED <<run, out>>
          ELSE IF ~f.ok
          THEN /\ pc' = [pc EXCEPT ![s] = "idle"]
               /\ run' = [run EXCEPT ![s] = NoRun]
               /\ out' = [out EXCEPT ![s] = [NoOut EXCEPT !.op = "load", !.name = sel,
                                               !.result = "FileNotFoundError"]]
          ELSE IF ~j.ok
          THEN /\ pc' = [pc EXCEPT ![s] = "idle"]
               /\ run' = [run EXCEPT ![s] = NoRun]
               /\ out' = [out EXCEPT ![s] = [NoOut EXCEPT !.op = "load", !.name = sel,
                                               !.path = f.path, !.result = "JSONDecodeError"]]
          ELSE /\ pc' = [pc EXCEPT ![s] = "eng_inputs"]
               /\ run' = [run EXCEPT ![s].params = j.val]
               /\ out' = [out EXCEPT ![s] = [NoOut EXCEPT !.op = "load", !.name = sel,
                                               !.path = f.path, !.result = "loaded",
                                               !.loaded = j.val]]
    /\ UNCHANGED <<fs, dirs, live, lastSave, hostParams, vrParams, simulations, rm>>

\* lines 35-39 raise when the loaded params lack a key (KeyError) or hold a
\* value outside a widget's range (StreamlitAPIException)
EngineWidgetsRaise(p) == ~(ENGINE_KEYS \subseteq DOMAIN p /\ EngineWidgetsOk(p))

\* lines 35-49 without a press of "Save Scenario", or with a name the test of
\* line 44 rejects; the run goes on to the simulation of lines 51-58
EngineInputs(s, name, press) ==
    /\ pc[s] = "eng_inputs"
    /\ ~press \/ ~SaveNameValid(name)
    /\ IF EngineWidgetsRaise(run[s].params)
       THEN out' = [out EXCEPT ![s] = [NoOut EXCEPT !.op = "inputs", !.result = "WidgetError"]]
       ELSE \E w \in EngineChoices(run[s].params) :
              LET p == WithWidgets(run[s].params, w)
              IN out' = [out EXCEPT ![s] =
                           IF press
                           THEN [NoOut EXCEPT !.op = "save", !.name = name,
                                              !.result = "InvalidNameError",
                                              !.handed = EngineHanded(p)]
                           ELSE [@ EXCEPT !.handed = EngineHanded(p)]]
    /\ pc' = [pc EXCEPT ![s] = "idle"]
    /\ run' = [run EXCEPT ![s] = NoRun]
    /\ UNCHANGED <<fs, dirs, live, lastSave, hostParams, vrParams, simulations, rm>>

\* open(path, "w"): the file is created or truncated to nothing
Truncated(path) == [q \in DOMAIN fs \cup {path} |-> IF q = path THEN <<>> ELSE fs[q]]

\* lines 35-45 with "Save Scenario" pressed and a name line 44 accepts:
\* open(os.path.join(SCENARIO_DIR, save_name), "w")
EngineSaveOpen(s, name) ==
    /\ pc[s] = "eng_inputs"
    /\ ~EngineWidgetsRaise(run[s].params)
    /\ SaveNameValid(name)
    /\ \E w \in EngineChoices(run[s].params) :
       LET p == WithWidgets(run[s].params, w)
           r == ResolvePath(PathJoin(RESISTANCE_DIR, name), dirs)
       IN IF r.ok
          THEN /\ fs' = Truncated(r.path)
               /\ run' = [run EXCEPT ![s].params = p, ![s].fpath = r.path, ![s].name = name]
               /\ pc' = [pc EXCEPT ![s] = "eng_opened"]
               /\ UNCHANGED out
          ELSE /\ out' = [out EXCEPT ![s] = [NoOut EXCEPT !.op = "save", !.name = name,
                                               !.result = "FileNotFoundError"]]
               /\ pc' = [pc EXCEPT ![s] = "idle"]
               /\ run' = [run EXCEPT ![s] = NoRun]
               /\ UNCHANGED fs
    /\ UNCHANGED <<dirs, live, lastSave, hostParams, vrParams, simulations, rm>>

\* line 46: json.dump(params, f) fills the buffer of the file object
EngineDump(s) ==
    /\ pc[s] = "eng_opened"
    /\ run' = [run EXCEPT ![s].buf = JsonDump(run[s].params)]
    /\ pc' = [pc EXCEPT ![s] = "eng_dumped"]
    /\ UNCHANGED <<fs, dirs, live, out, lastSave, hostParams, vrParams, simulations, rm>>

\* what the flush of a buffer into an open file leaves; a file unlinked since
\* the open stays unlinked
Flushed(path, buf) ==
    IF path \in DOMAIN fs THEN [fs EXCEPT ![path] = Overlay(@, buf)] ELSE fs

\* the end of the with block of lines 45-46: the buffer is written at the
\* descriptor's offset 0 and the file is closed; then lines 47 and 51-58
EngineClose(s) ==
    /\ pc[s] = "eng_dumped"
    /\ fs' = Flushed(run[s].fpath, run[s].buf)
    /\ lastSave' = (run[s].name :> run[s].params) @@ lastSave
    /\ out' = [out EXCEPT ![s] = [NoOut EXCEPT !.op = "save", !.name = run[s].name,
                                    !.path = run[s].fpath, !.result = "saved",
                                    !.handed = EngineHanded(run[s].params)]]
    /\ pc' = [pc EXCEPT ![s] = "idle"]
    /\ run' = [run EXCEPT ![s] = NoRun]
    /\ UNCHANGED <<dirs, live, hostParams, vrParams, simulations, rm>>

EngineStep(s, names) ==
    \/ \E choice \in {NONE} \cup Listing(<<RESISTANCE_DIR>>) : EngineList(s, choice)
    \/ EngineLoad(s)
    \/ \E name \in names, press \in BOOLEAN : EngineInputs(s, name, press)
    \/ \E name \in names : EngineSaveOpen(s, name)
    \/ EngineDump(s)
    \/ EngineClose(s)

\* ------------------------------------------------------------ rate mapping

\* beta_base = 2.5e-4, in units of 1e-5
BETA_BASE == 25

\* drug_pressure * adherence, in units of 1/ONE^2
DrugEff(p) == p["drug_pressure"].n * p["adherence"].n

\* gene_effect if gene_editing else 0.0, in units of 1/ONE
GeneSup(p) == IF p["gene_editing"].n = 1 THEN p["gene_effect"].n ELSE 0

\* the first reduction with its sign turned
BetaEffMut(p) == BETA_BASE * (10 * ONE * ONE + 8 * DrugEff(p)) * (10 * ONE - 7 * GeneSup(p))

\* beta_base * (1 - 0.8 * drug_eff) * (1 - 0.7 * gene_sup), as the numerator
\* of an exact fraction over BetaDenominator
BetaEff(p) == BETA_BASE * (10 * ONE * ONE - 8 * DrugEff(p)) * (10 * ONE - 7 * GeneSup(p))

BetaDenominator == 100000 * (10 * ONE * ONE) * (10 * ONE)

\* 1.0 in the fixed-point unit of comorbidity_boost
BOOST_ONE == 10000

DIABETES_MULT == 120

HYPERTENSION_MULT == 115

OBESITY_MULT == 110

\* boost *= m, m in hundredths
BoostTimes(boost, m) == (boost * m) \div 100

\* the obesity branch with the hypertension multiplier
ComorbidityBoostMut(p) ==
    LET b0 == BOOST_ONE
        b1 == IF p["diabetes"].n = 1 THEN BoostTimes(b0, DIABETES_MULT) ELSE b0
        b2 == IF p["hypertension"].n = 1 THEN BoostTimes(b1, HYPERTENSION_MULT) ELSE b1
        b3 == IF p["obesity"].n = 1 THEN BoostTimes(b2, HYPERTENSION_MULT) ELSE b2
    IN b3

\* lines 67-70: the three ifs, in the order of the source
ComorbidityBoost(p) ==
    LET b0 == BOOST_ONE
        b1 == IF p["diabetes"].n = 1 THEN BoostTimes(b0, DIABETES_MULT) ELSE b0
        b2 == IF p["hypertension"].n = 1 THEN BoostTimes(b1, HYPERTENSION_MULT) ELSE b1
        b3 == IF p["obesity"].n = 1 THEN BoostTimes(b2, OBESITY_MULT) ELSE b2
    IN b3

P_BASE == 5000

\* p_eff = 5000 * comorbidity_boost, in units of 1/BOOST_ONE
ProductionRate(p) == P_BASE * ComorbidityBoost(p)

\* lines 60-72 of the Host-Protein module: parameters to rate constants
MapToRates(p) ==
    [beta_eff |-> BetaEff(p), comorbidity_boost |-> ComorbidityBoost(p),
     production_rate |-> ProductionRate(p)]

\* the rate mapping applied to the next drawn parameter set
RateMap ==
    /\ Len(rm.r) < Len(rm.p)
    /\ rm' = [rm EXCEPT !.r = Append(@, MapToRates(rm.p[Len(@) + 1]))]
    /\ UNCHANGED <<fs, dirs, live, pc, run, out, lastSave, hostParams, vrParams, simulations>>

\* ------------------------------------------------------ resistance growth

\* np.arange from 1 instead of 0
ArangeMut(lo, hi) == [i \in 1..(IF hi > lo THEN hi - lo ELSE 0) |-> lo + i]

\* np.arange(lo, hi): lo, lo + 1, ..., hi - 1; empty when hi <= lo
Arange(lo, hi) == [i \in 1..(IF hi > lo THEN hi - lo ELSE 0) |-> lo + i - 1]

\* values np.random.uniform(0.8, 1.2) can return, in tenths
UniformDraws == {8, 12}

\* np.exp(e) * s as the pair of e and s; for the resistance curve e is in
\* units of 1e-5 / ONE and s in units of 1 / ONE
ExpTimes(e, s) == [e |-> e, s |-> s]

\* lines 55-57 for one drug: dp and mu from the two draws, then
\* np.exp(mu * dp * t) * (1 - adherence) for each t
ResistanceCurve(p, t, draw) ==
    LET dp == p["drug_pressure"].n * draw.dp
        mu == p["mutation_rate"].n * draw.mu
    IN [i \in 1..Len(t) |-> ExpTimes(mu * dp * t[i], ONE - p["adherence"].n)]

\* lines 52-58: one trace per selected drug, over t = arange(0, duration)
ResistanceTraces(p, draws) ==
    LET t == Arange(0, p["duration"].n)
        drugs == p["selected_drugs"].l
    IN [i \in 1..Len(drugs) |->
          [name |-> <<drugs[i]>>, x |-> t, y |-> ResistanceCurve(p, t, draws[i])]]

\* the resistance computation applied to the next drawn input
ResistanceMap ==
    /\ Len(rm.r) < Len(rm.p)
    /\ LET in == rm.p[Len(rm.r) + 1]
       IN rm' = [rm EXCEPT !.r = Append(@, ResistanceTraces(in.params, in.draws))]
    /\ UNCHANGED <<fs, dirs, live, pc, run, out, lastSave, hostParams, vrParams, simulations>>

\* ---------------------------------------------------------- viral dynamics

\* line 84: np.linspace(0, params["duration"], 300)
SAMPLE_COUNT == 300

\* np.linspace with one sample fewer
LinspaceMut(start, stop, num) ==
    [i \in 1..(num - 1) |-> start * (num - 1) + (i - 1) * (stop - start)]

\* np.linspace(start, stop, num): arange(num) * ((stop - start) / (num - 1))
\* + start, with the last sample set to stop; in units of 1/(num - 1)
Linspace(start, stop, num) ==
    [i \in 1..num |-> IF i = num THEN stop * (num - 1)
                      ELSE start * (num - 1) + (i - 1) * (stop - start)]

\* lines 73-76, in hundredths: delta = 0.7, c = 5.0, lambda_ = 1e4, d_T = 0.01
DELTA == 70

CLEARANCE == 500

LAMBDA_ == 1000000

D_T == 1

\* lines 79-81, in tenths: T0 = 1e6, I0 = 1e-3 * T0, V0 = 1e-1
T0 == 10000000

I0 == T0 \div 1000

V0 == 1

\* one number of a solution: the first row holds the initial values
\* themselves (k = "exact", v the value in tenths); of a later row the model
\* keeps whether it can be negative (k = "nonneg" or "any")
Exact(v) == [k |-> "exact", v |-> v]

Later(k) == [k |-> k, v |-> 0]

NonNeg(x) == IF x.k = "exact" THEN x.v >= 0 ELSE x.k = "nonneg"

\* the args of line 86, as what target_cell_model uses of them: their signs
RateSigns(p) ==
    [beta_eff |-> BetaEff(p) >= 0, delta |-> DELTA >= 0, p |-> ProductionRate(p) >= 0,
     c |-> CLEARANCE >= 0, lambda_ |-> LAMBDA_ >= 0, d_T |-> D_T >= 0]

\* a clearance term c in place of c * V
target_cell_modelMut(y, r) ==
    [T |-> r.lambda_,
     I |-> r.beta_eff /\ NonNeg(y.V) /\ NonNeg(y.T),
     V |-> r.p /\ NonNeg(y.I) /\ ~r.c]

\* target_cell_model, lines 10-13, on a face of the orthant: whether each
\* derivative is >= 0 where its own component is 0.  There the loss terms
\* d_T * T + beta_eff * V * T, delta * I and c * V vanish, and what is left
\* is lambda_, beta_eff * V * T and p * I
target_cell_model(y, r) ==
    [T |-> r.lambda_,
     I |-> r.beta_eff /\ NonNeg(y.V) /\ NonNeg(y.T),
     V |-> r.p /\ NonNeg(y.I)]

\* the row that follows row y in a solution: a component stays >= 0 when it
\* is >= 0 and its derivative is >= 0 wherever it is 0
NextRow(y, r) ==
    LET d == target_cell_model(y, r)
    IN [x \in {"T", "I", "V"} |-> Later(IF NonNeg(y[x]) /\ d[x] THEN "nonneg" ELSE "any")]

\* n rows from row y on: the first half, then the rows that follow its last
RECURSIVE Rows(_, _, _)
Rows(y, r, n) ==
    IF n = 0 THEN <<>>
    ELSE IF n = 1 THEN <<y>>
    ELSE LET half == Rows(y, r, n \div 2)
         IN half \o Rows(NextRow(half[Len(half)], r), r, n - n \div 2)

\* scipy.integrate.odeint(target_cell_model, y0, t, args): one row per
\* element of t, the first of them y0
odeint(y0, t, r) == Rows(y0, r, Len(t))

\* sol[:, j].tolist()
Column(sol, x) == [i \in 1..Len(sol) |-> sol[i][x]]

\* lines 79-94: the trajectory a run records
Trajectory(p) ==
    LET y0 == [T |-> Exact(T0), I |-> Exact(I0), V |-> Exact(V0)]
        t == Linspace(0, p["duration"].n, SAMPLE_COUNT)
        sol == odeint(y0, t, RateSigns(p))
    IN [t |-> t, T |-> Column(sol, "T"), I |-> Column(sol, "I"), V |-> Column(sol, "V")]

\* ------------------------------------------------------- session run history

\* the dict itself in place of a copy: the record is an alias of the
\* module's params in st.session_state
DictCopyMut(d) == [alias |-> "params"]

\* params.copy(): a new dict with the items of params; the widgets that
\* later assign params[key] do not reach it
DictCopy(d) == d

\* the runs one session may record in the model
MaxRuns == 2

\* an id counted from 0
sim_idMut(sims) == Len(sims)

\* len(st.session_state.simulations) + 1, read in the statement that appends
sim_id(sims) == Len(sims) + 1

\* simulations.insert(0, record)
RecordedMut(sims, module, label, params, data) ==
    <<[id |-> Len(sims) + 1, module |-> module,
       name |-> [text |-> label, n |-> Len(sims) + 1],
       params |-> params, data |-> data]>> \o sims

\* st.session_state.simulations.append(record)
Recorded(sims, module, label, params, data) ==
    Append(sims, [id |-> sim_id(sims), module |-> module,
                  name |-> [text |-> label, n |-> Len(sims) + 1],
                  params |-> params, data |-> data])

\* Host-Protein module, one script run: the widgets of lines 33-57 write
\* host_params; "Run Simulation" maps the rates, integrates and appends the run
HostRerun(s, w, press) ==
    /\ pc[s] = "idle"
    /\ w \in HostChoices(hostParams[s])
    /\ press => Len(simulations[s]) < MaxRuns
    /\ hostParams' = [hostParams EXCEPT ![s] = w]
    /\ IF press
       THEN /\ simulations' = [simulations EXCEPT ![s] =
                   Recorded(@, HOST, "Host", DictCopy(w), Trajectory(w))]
            /\ out' = [out EXCEPT ![s] = [NoOut EXCEPT !.op = "run", !.module = HOST,
                                            !.result = "completed",
                                            !.handed = <<[who |-> HOST, p |-> w]>>]]
       ELSE UNCHANGED <<simulations, out>>
    /\ UNCHANGED <<fs, dirs, live, pc, run, lastSave, vrParams, rm>>

\* the colour counts of n particles (lines 64-72): r < drug_effectiveness is
\* green, else with gene editing r < drug_effectiveness + gene_effect is
\* blue, else red; r is uniform in [0,1)
ColorCounts(p) ==
    LET n == p["num_particles"].n
        de == p["drug_effectiveness"].n
        ge == IF p["gene_editing"].n = 1 THEN p["gene_effect"].n ELSE 0
    IN { c \in { [red |-> n, green |-> 0, blue |-> 0], [red |-> 0, green |-> n, blue |-> 0],
                 [red |-> 0, green |-> 0, blue |-> n] } :
           /\ (de = 0 => c.green = 0)
           /\ (de >= ONE => c.green = n)
           /\ (ge = 0 => c.blue = 0)
           /\ (de + ge >= ONE => c.red = 0) }

\* VR module, one script run: the widgets of lines 31-59 write vr_params;
\* "Generate 3D View" draws the particles and appends the view
VrRerun(s, w, press) ==
    /\ pc[s] = "idle"
    /\ w \in VrChoices(vrParams[s])
    /\ press => Len(simulations[s]) < MaxRuns
    /\ vrParams' = [vrParams EXCEPT ![s] = w]
    /\ IF press
       THEN /\ \E c \in ColorCounts(w) :
                 simulations' = [simulations EXCEPT ![s] =
                     Recorded(@, VR, "3D Viz", DictCopy(w), [kind |-> "colors_count"] @@ c)]
            /\ out' = [out EXCEPT ![s] = [NoOut EXCEPT !.op = "run", !.module = VR,
                                            !.result = "added"]]
       ELSE UNCHANGED <<simulations, out>>
    /\ UNCHANGED <<fs, dirs, live, pc, run, lastSave, hostParams, rm>>

\* drug selections of the knowledge-graph multiselect
KgSelections == { <<"Tenofovir", "Dolutegravir">>, <<>> }

\* Knowledge-graph module, one script run: no drugs selected or the static
\* fallback return before the capture button (lines 38-40, 65-80); a pyvis
\* failure (lines 133-142) falls through to it
KgRerun(s, drugs, static, press) ==
    /\ pc[s] = "idle"
    /\ drugs \in KgSelections
    /\ press => Len(simulations[s]) < MaxRuns
    /\ IF drugs # <<>> /\ ~static /\ press
       THEN /\ simulations' = [simulations EXCEPT ![s] =
                   Recorded(@, KG, "KG", [selected_drugs |-> PyList(drugs)], [kind |-> "None"])]
            /\ out' = [out EXCEPT ![s] = [NoOut EXCEPT !.op = "run", !.module = KG,
                                            !.result = "captured"]]
       ELSE UNCHANGED <<simulations, out>>
    /\ UNCHANGED <<fs, dirs, live, pc, run, lastSave, hostParams, vrParams, rm>>

\* -------------------------------------------------------- Scenario Comparator

\* the files one comparison may select in the model
MaxSelect == 2

\* duration = 100 of the comparison plot
CMP_DURATION == 100

\* dict.get(key, default)
Get(d, k, default) == IF k \in DOMAIN d THEN d[k] ELSE default

\* the orders in which the user can have picked n of the listed files
Selections(listing) ==
    { sq \in UNION { [1..n -> listing] : n \in 0..MaxSelect } :
        \A i, j \in 1..Len(sq) : i # j => sq[i] # sq[j] }

\* lines 15-31: pick the module, make its directory, list it, select files
CmpList(s, m, selection) ==
    /\ pc[s] = "idle"
    /\ m \in DOMAIN SCENARIO_DIRS
    /\ dirs' = dirs \cup {<<SCENARIO_DIRS[m]>>}
    /\ LET saved_files == Listing(<<SCENARIO_DIRS[m]>>)
       IN /\ selection \in Selections(saved_files)
          /\ IF saved_files = {} \/ selection = <<>>
             THEN /\ out' = [out EXCEPT ![s] = [NoOut EXCEPT !.op = "compare", !.module = m,
                                                  !.offered = saved_files,
                                                  !.result = "nothing to compare"]]
                  /\ UNCHANGED <<pc, run>>
             ELSE /\ out' = [out EXCEPT ![s] = [NoOut EXCEPT !.op = "compare", !.module = m,
                                                  !.offered = saved_files,
                                                  !.result = "selected"]]
                  /\ run' = [run EXCEPT ![s] = [NoRun EXCEPT !.module = m,
                                                               !.selection = selection]]
                  /\ pc' = [pc EXCEPT ![s] = "cmp_listed"]
    /\ UNCHANGED <<fs, live, lastSave, hostParams, vrParams, simulations, rm>>

\* lines 33-38: open and json.load each selected file, in order; the first
\* failure ends the run
RECURSIVE LoadAll(_, _, _)
LoadAll(names, d, acc) ==
    IF names = <<>> THEN [result |-> "compared", scenarios |-> acc, name |-> <<>>]
    ELSE LET f == OpenRead(Head(names), d)
             j == JsonLoad(f.text)
         IN IF ~f.ok
            THEN [result |-> "FileNotFoundError", scenarios |-> <<>>, name |-> Head(names)]
            ELSE IF ~j.ok
            THEN [result |-> "JSONDecodeError", scenarios |-> <<>>, name |-> Head(names)]
            ELSE LoadAll(Tail(names), d,
                         Append(acc, ("filename" :> PyStr(Head(names))) @@ j.val))

\* what the plot loop of lines 46-69 hands to the model of one scenario
CmpHanded(m, sc) ==
    IF m = HOST
    THEN <<[who |-> "Comparator / Host-Protein",
            p |-> [host_activity |-> Get(sc, "host_activity", PyFloat(10)),
                   drug_pressure |-> Get(sc, "drug_pressure", PyFloat(12)),
                   adherence |-> Get(sc, "adherence", PyFloat(16)),
                   gene_effect |-> Get(sc, "gene_effect", PyFloat(10)),
                   gene_editing |-> Get(sc, "gene_editing", PyBool(FALSE)),
                   duration |-> PyInt(CMP_DURATION)]]>>
    ELSE IF m = ENGINE
    THEN <<[who |-> "Comparator / Resistance",
            p |-> [selected_drugs |-> Get(sc, "selected_drugs", PyList(<<"Tenofovir">>)),
                   drug_pressure |-> Get(sc, "drug_pressure", PyFloat(12)),
                   mutation_rate |-> Get(sc, "mutation_rate", PyFloat(10)),
                   adherence |-> Get(sc, "adherence", PyFloat(16)),
                   duration |-> Get(sc, "duration", PyInt(100))]]>>
    ELSE <<>>

RECURSIVE CmpHandedAll(_, _)
CmpHandedAll(m, scs) ==
    IF scs = <<>> THEN <<>> ELSE CmpHanded(m, Head(scs)) \o CmpHandedAll(m, Tail(scs))

\* lines 49-52: comorbidity_factor, in thousandths
CmpComorbidity(sc) ==
    LET b0 == BOOST_ONE
        b1 == IF Get(sc, "diabetes", PyBool(FALSE)).n # 0 THEN BoostTimes(b0, DIABETES_MULT) ELSE b0
        b2 == IF Get(sc, "hypertension", PyBool(FALSE)).n # 0
              THEN BoostTimes(b1, HYPERTENSION_MULT) ELSE b1
        b3 == IF Get(sc, "obesity", PyBool(FALSE)).n # 0 THEN BoostTimes(b2, OBESITY_MULT) ELSE b2
    IN b3 \div 10

\* lines 48-55: np.exp(t / 25) times the comorbidity factor, times
\* 1 - host_activity * drug_pressure * adherence, times 1 - gene_effect with
\* gene editing; e in units of 1/25, s in units of 1 / (1000 * ONE^4)
HostCurve(sc, t) ==
    LET h == CmpHanded(HOST, sc)[1].p
        drug == ONE * ONE * ONE - h["host_activity"].n * h["drug_pressure"].n * h["adherence"].n
        gene == IF h["gene_editing"].n # 0 THEN ONE - h["gene_effect"].n ELSE ONE
    IN [i \in 1..Len(t) |-> ExpTimes(t[i], CmpComorbidity(sc) * drug * gene)]

\* the draws at the middle of their range: the traces of the comparator are
\* kept for this one pair of draws
MID_DRAW == [dp |-> 10, mu |-> 10]

CmpTracesMut(m, sc) ==
    LET file == sc["filename"].l
        t == Arange(0, Get(sc, "duration", PyInt(CMP_DURATION)).n)
    IN IF m = HOST
       THEN <<[name |-> [file |-> file, drug |-> ""], x |-> t, y |-> HostCurve(sc, t)]>>
       ELSE IF m = ENGINE
       THEN LET p == CmpHanded(ENGINE, sc)[1].p
                drugs == p["selected_drugs"].l
            IN [i \in 1..Len(drugs) |->
                  [name |-> [file |-> file, drug |-> drugs[i]], x |-> t,
                   y |-> ResistanceCurve(p, t, MID_DRAW)]]
       ELSE <<[name |-> [file |-> file, drug |-> ""],
               x |-> Arange(0, Get(sc, "num_particles", PyInt(50)).n), y |-> <<>>]>>

\* lines 46-69: the traces added to the figure for one scenario
CmpTraces(m, sc) ==
    LET file == sc["filename"].l
    IN IF m = HOST
       THEN LET t == Arange(0, CMP_DURATION)
            IN <<[name |-> [file |-> file, drug |-> ""], x |-> t, y |-> HostCurve(sc, t)]>>
       ELSE IF m = ENGINE
       THEN LET p == CmpHanded(ENGINE, sc)[1].p
                t_res == Arange(0, p["duration"].n)
                drugs == p["selected_drugs"].l
            IN [i \in 1..Len(drugs) |->
                  [name |-> [file |-> file, drug |-> drugs[i]], x |-> t_res,
                   y |-> ResistanceCurve(p, t_res, MID_DRAW)]]
       ELSE \* np.random.rand(num_particles): the values are not kept
            <<[name |-> [file |-> file, drug |-> ""],
               x |-> Arange(0, Get(sc, "num_particles", PyInt(50)).n), y |-> <<>>]>>

RECURSIVE CmpTracesAll(_, _)
CmpTracesAll(m, scs) ==
    IF scs = <<>> THEN <<>> ELSE CmpTraces(m, Head(scs)) \o CmpTracesAll(m, Tail(scs))

\* lines 33-78: load the selected scenarios and plot them
CmpLoad(s) ==
    /\ pc[s] = "cmp_listed"
    /\ LET m == run[s].module
           r == LoadAll(run[s].selection, SCENARIO_DIRS[m], <<>>)
       IN out' = [out EXCEPT ![s] = [@ EXCEPT !.result = r.result, !.name = r.name,
                                                !.scenarios = r.scenarios,
                                                !.handed = CmpHandedAll(m, r.scenarios),
                                                !.traces = CmpTracesAll(m, r.scenarios)]]
    /\ pc' = [pc EXCEPT ![s] = "idle"]
    /\ run' = [run EXCEPT ![s] = NoRun]
    /\ UNCHANGED <<fs, dirs, live, lastSave, hostParams, vrParams, simulations, rm>>

\* the files the export of lines 87-93 writes, in the working directory
EXPORT_CSV ==
    <<"e","x","p","o","r","t","e","d","_","s","c","e","n","a","r","i","o","s",".","c","s","v">>

EXPORT_JSON ==
    <<"e","x","p","o","r","t","e","d","_","s","c","e","n","a","r","i","o","s",".","j","s","o","n">>

WithoutFilenameMut(sc) == sc

\* line 86: {k: v for k, v in scenario.items() if k != 'filename'}
WithoutFilename(sc) == [k \in DOMAIN sc \ {"filename"} |-> sc[k]]

\* json.dump of a list of dicts (line 93): the objects between brackets
RECURSIVE JsonDumpAll(_)
JsonDumpAll(ds) ==
    IF ds = <<>> THEN <<>>
    ELSE JsonDump(Head(ds)) \o (IF Len(ds) = 1 THEN <<>> ELSE <<Tok(",")>> \o JsonDumpAll(Tail(ds)))

JsonDumpList(ds) == <<Tok("[")>> \o JsonDumpAll(ds) \o <<Tok("]")>>

\* pd.DataFrame(list of dicts): the columns are the keys in the order in
\* which they first appear
RECURSIVE Columns(_, _)
Columns(ds, acc) ==
    IF ds = <<>> THEN acc
    ELSE Columns(Tail(ds),
                 acc \o SelectSeq(KEY_ORDER, LAMBDA k : k \in DOMAIN Head(ds) /\ k \notin Range(acc)))

\* a column of integers that has a missing value or a float becomes a column
\* of floats
Widened(ds, k) ==
    \E i \in 1..Len(ds) : k \notin DOMAIN ds[i] \/ ds[i][k].ty = "float"

\* one cell of DataFrame.to_csv: empty for a missing value, a quoted text
\* for a list, the number or boolean otherwise
CsvCell(ds, d, k) ==
    IF k \notin DOMAIN d THEN <<>>
    ELSE IF d[k].ty = "list" THEN <<[t |-> "quoted", s |-> d[k].l, n |-> 0]>>
    ELSE IF d[k].ty = "str" THEN <<TokText(d[k].l)>>
    ELSE IF d[k].ty = "int" /\ Widened(ds, k) THEN <<TokNum("float", d[k].n)>>
    ELSE <<TokNum(d[k].ty, d[k].n)>>

RECURSIVE CsvRow(_, _, _)
CsvRow(ds, d, cols) ==
    IF cols = <<>> THEN <<Tok("\n")>>
    ELSE CsvCell(ds, d, Head(cols))
           \o (IF Len(cols) = 1 THEN <<>> ELSE <<Tok(",")>>) \o CsvRow(ds, d, Tail(cols))

RECURSIVE CsvHeader(_)
CsvHeader(cols) ==
    IF cols = <<>> THEN <<Tok("\n")>>
    ELSE <<TokStr(Head(cols))>>
           \o (IF Len(cols) = 1 THEN <<>> ELSE <<Tok(",")>>) \o CsvHeader(Tail(cols))

RECURSIVE CsvRows(_, _, _)
CsvRows(ds, rest, cols) ==
    IF rest = <<>> THEN <<>> ELSE CsvRow(ds, Head(rest), cols) \o CsvRows(ds, Tail(rest), cols)

\* lines 88-89: pd.DataFrame(export_data).to_csv(path, index=False)
ToCsv(ds) == LET cols == Columns(ds, <<>>) IN CsvHeader(cols) \o CsvRows(ds, ds, cols)

\* lines 33-94 with "Export Selected Scenarios" pressed: load, plot and
\* write the export file
CmpExport(s, export_type) ==
    /\ pc[s] = "cmp_listed"
    /\ export_type \in {"CSV", "JSON"}
    /\ LET m == run[s].module
           r == LoadAll(run[s].selection, SCENARIO_DIRS[m], <<>>)
           export_data == [i \in 1..Len(r.scenarios) |-> WithoutFilename(r.scenarios[i])]
           path == IF export_type = "CSV" THEN <<EXPORT_CSV>> ELSE <<EXPORT_JSON>>
           text == IF export_type = "CSV" THEN ToCsv(export_data) ELSE JsonDumpList(export_data)
       IN IF r.result = "compared"
          THEN /\ fs' = [q \in DOMAIN fs \cup {path} |-> IF q = path THEN text ELSE fs[q]]
               /\ out' = [out EXCEPT ![s] = [@ EXCEPT !.op = "export", !.result = "exported",
                                                        !.name = r.name, !.path = path,
                                                        !.scenarios = r.scenarios,
                                                        !.handed = CmpHandedAll(m, r.scenarios),
                                                        !.traces = CmpTracesAll(m, r.scenarios)]]
          ELSE /\ fs' = fs
               /\ out' = [out EXCEPT ![s] = [@ EXCEPT !.result = r.result, !.name = r.name]]
    /\ pc' = [pc EXCEPT ![s] = "idle"]
    /\ run' = [run EXCEPT ![s] = NoRun]
    /\ UNCHANGED <<dirs, live, lastSave, hostParams, vrParams, simulations, rm>>

CmpStep(s) ==
    \/ \E m \in DOMAIN SCENARIO_DIRS :
         \E selection \in Selections(Listing(<<SCENARIO_DIRS[m]>>)) : CmpList(s, m, selection)
    \/ CmpLoad(s)

SessionStep(s) ==
    \/ \E w \in HostChoices(hostParams[s]), press \in BOOLEAN : HostRerun(s, w, press)
    \/ \E w \in VrChoices(vrParams[s]), press \in BOOLEAN : VrRerun(s, w, press)
    \/ \E drugs \in KgSelections, static \in BOOLEAN, press \in BOOLEAN :
         KgRerun(s, drugs, static, press)

\* ------------------------------------------------------------ AI assistant

KG_DIR == <<"k","g","_","s","c","e","n","a","r","i","o","s">>

\* the assistant's module -> directory table
AI_SCENARIO_DIRS == SCENARIO_DIRS @@ (KG :> KG_DIR)

\* lines 17-23: make and list the module's directory, the user picks "None"
\* or a listed file; with "None" the explanation is made from params = {}
AiList(s, m, choice) ==
    /\ pc[s] = "idle"
    /\ m \in DOMAIN AI_SCENARIO_DIRS
    /\ choice \in {NONE} \cup Listing(<<AI_SCENARIO_DIRS[m]>>)
    /\ dirs' = dirs \cup {<<AI_SCENARIO_DIRS[m]>>}
    /\ IF choice = NONE
       THEN /\ out' = [out EXCEPT ![s] = [NoOut EXCEPT !.op = "explain", !.module = m,
                                            !.result = "explained"]]
            /\ UNCHANGED <<pc, run>>
       ELSE /\ run' = [run EXCEPT ![s] = [NoRun EXCEPT !.selected = choice, !.module = m]]
            /\ pc' = [pc EXCEPT ![s] = "ai_listed"]
            /\ UNCHANGED out
    /\ UNCHANGED <<fs, live, lastSave, hostParams, vrParams, simulations, rm>>

\* lines 24-67: open the picked file and json.load it; the explanation reads
\* the loaded params with params.get and runs no model
AiLoad(s) ==
    /\ pc[s] = "ai_listed"
    /\ LET sel == run[s].selected
           m == run[s].module
           f == OpenRead(sel, AI_SCENARIO_DIRS[m])
           j == JsonLoad(f.text)
       IN out' = [out EXCEPT ![s] =
                    IF ~f.ok
                    THEN [NoOut EXCEPT !.op = "explain", !.module = m, !.name = sel,
                                       !.result = "FileNotFoundError"]
                    ELSE IF ~j.ok
                    THEN [NoOut EXCEPT !.op = "explain", !.module = m, !.name = sel,
                                       !.path = f.path, !.result = "JSONDecodeError"]
                    ELSE [NoOut EXCEPT !.op = "explain", !.module = m, !.name = sel,
                                       !.path = f.path, !.result = "explained",
                                       !.loaded = j.val]]
    /\ pc' = [pc EXCEPT ![s] = "idle"]
    /\ run' = [run EXCEPT ![s] = NoRun]
    /\ UNCHANGED <<fs, dirs, live, lastSave, hostParams, vrParams, simulations, rm>>

\* ------------------------------------------------------------- environment

\* a scenario file removed from outside the application (rm, a file manager)
EnvRemove(path) ==
    /\ path \in DOMAIN fs
    /\ fs' = [q \in DOMAIN fs \ {path} |-> fs[q]]
    /\ UNCHANGED <<dirs, live, pc, run, out, lastSave, hostParams, vrParams, simulations, rm>>

\* ----------------------------------------------------------- specifications

\* the disk as earlier sessions can leave it: x.json and y.json saved by the
\* Resistance Engine, and saved_scenarios/x.json written by a save of
\* "../saved_scenarios/x.json" after the comparator made that directory
InitSaved ==
    /\ fs = (<<RESISTANCE_DIR, X_JSON>> :> JsonDump(EngineDefaults))
              @@ (<<RESISTANCE_DIR, Y_JSON>> :> JsonDump(EngineOther))
              @@ (<<SAVED_DIR, X_JSON>> :> JsonDump(EngineOther))
    /\ dirs = {<<RESISTANCE_DIR>>, <<SAVED_DIR>>}
    /\ pc = [s \in Sessions |-> "idle"]
    /\ run = [s \in Sessions |-> NoRun]
    /\ out = [s \in Sessions |-> NoOut]
    /\ lastSave = <<>>
    /\ hostParams = [s \in Sessions |-> HostDefaults]
    /\ vrParams = [s \in Sessions |-> VrDefaults]
    /\ simulations = [s \in Sessions |-> <<>>]
    /\ live = {1}
    /\ rm = NoRates

\* the whole application, one session
Next == \E s \in live : EngineStep(s, NameInputs) \/ CmpStep(s) \/ SessionStep(s)

Spec == Init /\ [][Next]_vars

\* the pages that share the scenario directories: engine and comparator
NextStore == \E s \in live : EngineStep(s, NameInputs) \/ CmpStep(s)

SpecStore == Init /\ [][NextStore]_vars

\* the scenario directories shared with the environment
StoreNames == { X_JSON, JSON_EXT }

NextEnv ==
    \/ \E s \in live : EngineStep(s, StoreNames) \/ CmpStep(s)
    \/ \E path \in DOMAIN fs : EnvRemove(path)

SpecEnv == InitSaved /\ [][NextEnv]_vars

\* two sessions on the Resistance Engine page
NextConc == \E s \in live : EngineStep(s, {X_JSON})

InitConc == InitStore /\ live = Sessions /\ rm = NoRates

SpecConc == InitConc /\ [][NextConc]_vars

\* one session saving in the Resistance Engine while another is on the
\* pages that load scenario files
NextLoads ==
    \/ EngineList(1, NONE)
    \/ EngineLoad(1)
    \/ EngineSaveOpen(1, X_JSON)
    \/ EngineDump(1)
    \/ EngineClose(1)
    \/ \E s \in live \ {1} :
          \/ \E choice \in {NONE} \cup Listing(<<RESISTANCE_DIR>>) : EngineList(s, choice)
          \/ EngineLoad(s)
          \/ EngineInputs(s, X_JSON, FALSE)
          \/ CmpStep(s)
          \/ \E export_type \in {"CSV", "JSON"} : CmpExport(s, export_type)
          \/ \E m \in DOMAIN AI_SCENARIO_DIRS :
               \E choice \in {NONE} \cup Listing(<<AI_SCENARIO_DIRS[m]>>) : AiList(s, m, choice)
          \/ AiLoad(s)

\* every page has been visited (the directories are made) and x.json has
\* been saved
InitLoads ==
    /\ fs = (<<RESISTANCE_DIR, X_JSON>> :> JsonDump(EngineOther))
    /\ dirs = {<<AI_SCENARIO_DIRS[m]>> : m \in DOMAIN AI_SCENARIO_DIRS}
    /\ pc = [s \in Sessions |-> "idle"]
    /\ run = [s \in Sessions |-> NoRun]
    /\ out = [s \in Sessions |-> NoOut]
    /\ lastSave = <<>>
    /\ hostParams = [s \in Sessions |-> HostDefaults]
    /\ vrParams = [s \in Sessions |-> VrDefaults]
    /\ simulations = [s \in Sessions |-> <<>>]
    /\ live = Sessions
    /\ rm = NoRates

SpecLoads == InitLoads /\ [][NextLoads]_vars

\* the pages that share the session run history, and the comparator
NextSession == \E s \in live : SessionStep(s) \/ CmpStep(s)

SpecSession == InitSaved /\ [][NextSession]_vars

\* the pages that hand parameters to a model
NextModels ==
    \E s \in live :
       \/ EngineStep(s, StoreNames)
       \/ CmpStep(s)
       \/ \E w \in HostChoices(hostParams[s]), press \in BOOLEAN : HostRerun(s, w, press)

SpecModels == InitSaved /\ [][NextModels]_vars

\* a scenario file that no save of this application wrote (copied into the
\* directory, edited by hand): drug_pressure 1.5 and duration 0
ForeignScenario ==
    [EngineOther EXCEPT !["drug_pressure"] = PyFloat(ONE + ONE \div 2),
                        !["duration"] = PyInt(0)]

Z_JSON == <<"z">> \o JSON_EXT

\* the disk of InitSaved with the foreign file in two directories
InitForeign ==
    /\ fs = (<<RESISTANCE_DIR, X_JSON>> :> JsonDump(EngineDefaults))
              @@ (<<RESISTANCE_DIR, Z_JSON>> :> JsonDump(ForeignScenario))
              @@ (<<SAVED_DIR, X_JSON>> :> JsonDump(EngineOther))
              @@ (<<SAVED_DIR, Z_JSON>> :> JsonDump(ForeignScenario))
    /\ dirs = {<<RESISTANCE_DIR>>, <<SAVED_DIR>>}
    /\ pc = [s \in Sessions |-> "idle"]
    /\ run = [s \in Sessions |-> NoRun]
    /\ out = [s \in Sessions |-> NoOut]
    /\ lastSave = <<>>
    /\ hostParams = [s \in Sessions |-> HostDefaults]
    /\ vrParams = [s \in Sessions |-> VrDefaults]
    /\ simulations = [s \in Sessions |-> <<>>]
    /\ live = {1}
    /\ rm = NoRates

SpecForeign == InitForeign /\ [][NextModels]_vars

E_JSON == <<"e">> \o JSON_EXT

P_JSON == <<"p">> \o JSON_EXT

H_JSON == <<"h">> \o JSON_EXT

\* a scenario saved with every drug deselected
NoDrugsScenario == [EngineDefaults EXCEPT !["selected_drugs"] = PyList(<<>>)]

\* a scenario file that stores only two of the keys
PartialScenario == [drug_pressure |-> PyFloat(ONE \div 2), adherence |-> PyFloat(ONE \div 4)]

\* a scenario file in the format of the Host-Protein parameters
HostScenario ==
    [HostDefaults EXCEPT !["gene_editing"] = PyBool(TRUE), !["diabetes"] = PyBool(TRUE)]

\* a disk for the comparator: in resistance_scenarios a save of the engine
\* and a file with two keys, in saved_scenarios a file of Host-Protein
\* parameters
InitCmp ==
    /\ fs = (<<RESISTANCE_DIR, Y_JSON>> :> JsonDump(EngineOther))
              @@ (<<RESISTANCE_DIR, P_JSON>> :> JsonDump(PartialScenario))
              @@ (<<SAVED_DIR, H_JSON>> :> JsonDump(HostScenario))
    /\ dirs = {<<RESISTANCE_DIR>>, <<SAVED_DIR>>}
    /\ pc = [s \in Sessions |-> "idle"]
    /\ run = [s \in Sessions |-> NoRun]
    /\ out = [s \in Sessions |-> NoOut]
    /\ lastSave = <<>>
    /\ hostParams = [s \in Sessions |-> HostDefaults]
    /\ vrParams = [s \in Sessions |-> VrDefaults]
    /\ simulations = [s \in Sessions |-> <<>>]
    /\ live = {1}
    /\ rm = NoRates

\* the comparator with its export
NextCmp ==
    \E s \in live :
       \/ CmpStep(s)
       \/ \E export_type \in {"CSV", "JSON"} : CmpExport(s, export_type)

SpecCmp == InitCmp /\ [][NextCmp]_vars

\* a disk with a scenario saved with no drug selected and a scenario of
\* duration 0
InitNoDrugs ==
    /\ fs = (<<RESISTANCE_DIR, E_JSON>> :> JsonDump(NoDrugsScenario))
              @@ (<<RESISTANCE_DIR, Z_JSON>> :> JsonDump(ForeignScenario))
              @@ (<<SAVED_DIR, H_JSON>> :> JsonDump(HostScenario))
    /\ dirs = {<<RESISTANCE_DIR>>, <<SAVED_DIR>>}
    /\ pc = [s \in Sessions |-> "idle"]
    /\ run = [s \in Sessions |-> NoRun]
    /\ out = [s \in Sessions |-> NoOut]
    /\ lastSave = <<>>
    /\ hostParams = [s \in Sessions |-> HostDefaults]
    /\ vrParams = [s \in Sessions |-> VrDefaults]
    /\ simulations = [s \in Sessions |-> <<>>]
    /\ live = {1}
    /\ rm = NoRates

SpecNoDrugs == InitNoDrugs /\ [][NextCmp]_vars

\* the pages that append to the session run history
NextRuns == \E s \in live : SessionStep(s)

SpecRuns == Init /\ [][NextRuns]_vars

\* the steps each [0,1] slider is drawn from in the rate-mapping specification
GridSteps == 2

GridValues == {(k * ONE) \div GridSteps : k \in 0..GridSteps}

RateInput(dp, ad, ge, ed, d, h, o) ==
    [HostDefaults EXCEPT !["drug_pressure"] = PyFloat(dp), !["adherence"] = PyFloat(ad),
                         !["gene_effect"] = PyFloat(ge), !["gene_editing"] = PyBool(ed),
                         !["diabetes"] = PyBool(d), !["hypertension"] = PyBool(h),
                         !["obesity"] = PyBool(o)]

\* two parameter sets of one patient (the same comorbidities)
RatePairs ==
    { <<RateInput(x[1], x[2], x[3], e[1], f[1], f[2], f[3]),
        RateInput(y[1], y[2], y[3], e[2], f[1], f[2], f[3])>> :
        x \in GridValues \X GridValues \X GridValues,
        y \in GridValues \X GridValues \X GridValues,
        e \in BOOLEAN \X BOOLEAN,
        f \in BOOLEAN \X BOOLEAN \X BOOLEAN }

InitRate ==
    /\ InitStore
    /\ live = {1}
    /\ rm \in {[p |-> pair, r |-> <<>>] : pair \in RatePairs}

SpecRate == InitRate /\ [][RateMap]_vars

\* the parameter sets the resistance computation is drawn on: sliders at
\* their ends and between, one, two or no drugs
ResistanceInputs ==
    { [selected_drugs |-> PyList(ds), drug_pressure |-> PyFloat(dp),
       mutation_rate |-> PyFloat(mu), adherence |-> PyFloat(ad), duration |-> PyInt(d)] :
        ds \in { <<"Tenofovir">>, <<"Tenofovir", "Lamivudine">>, <<>> },
        dp \in GridValues, mu \in {1, 50}, ad \in GridValues, d \in {50, 51, 200} }

DrawPairs == [dp : UniformDraws, mu : UniformDraws]

InitRes ==
    /\ InitStore
    /\ live = {1}
    /\ rm \in { [p |-> <<[params |-> q, draws |-> <<d1, d2>>]>>, r |-> <<>>] :
                  q \in ResistanceInputs, d1 \in DrawPairs, d2 \in DrawPairs }

SpecRes == InitRes /\ [][ResistanceMap]_vars

\* ------------------------------------------------------------------ claims

\* the files of directory d, with their texts
FilesIn(files, d) == [q \in {r \in DOMAIN files : Front(r) = d} |-> files[q]]

\* C1 (SpecStore).  Round trip: whenever a load of a name returns, it returns
\* the parameter set of the last completed save of that name.
C1_RoundTrip ==
    \A s \in live :
       (out[s].op = "load" /\ out[s].result = "loaded" /\ out[s].name \in DOMAIN lastSave)
          => out[s].loaded = lastSave[out[s].name]

\* a load of x.json after a save of x.json
C1_Loaded ==
    out[1].op = "load" /\ out[1].result = "loaded" /\ out[1].name = X_JSON
       /\ X_JSON \in DOMAIN lastSave

\* a name that does not end in ".json", or whose part before ".json" is empty
C2_Invalid(name) ==
    \/ Len(name) < 5
    \/ SubSeq(name, Len(name) - 4, Len(name)) # <<".", "j", "s", "o", "n">>
    \/ SubSeq(name, 1, Len(name) - 5) = <<>>

\* C2 (SpecStore).  A press of "Save Scenario" with a name that does not end
\* in ".json" or has an empty stem ends in the invalid-name error, and the
\* files and directories are the same after it as before.
C2_RejectedSave ==
    [][\A s \in live :
         pc[s] = "eng_inputs" =>
            LET opened == pc'[s] = "eng_opened"
                pressed == opened \/ (pc'[s] = "idle" /\ out'[s].op = "save")
                typed == IF opened THEN run'[s].name ELSE out'[s].name
            IN (pressed /\ C2_Invalid(typed))
                  => (/\ pc'[s] = "idle"
                      /\ out'[s].result = "InvalidNameError"
                      /\ fs' = fs
                      /\ dirs' = dirs)]_vars

\* a save of ".json" was rejected while a scenario was stored
C2_Rejected ==
    /\ out[1].op = "save" /\ out[1].result = "InvalidNameError" /\ out[1].name = JSON_EXT
    /\ <<RESISTANCE_DIR, X_JSON>> \in DOMAIN fs

\* C3 (SpecEnv).  A load whose file is not in the listing of the module's
\* directory when it is opened ends in the not-found error and returns no
\* parameters, also when the file was listed when it was selected.
C3_LoadAbsent ==
    [][\A s \in live :
         /\ (/\ pc[s] = "eng_listed" /\ pc'[s] # "eng_listed"
             /\ run[s].selected # NONE
             /\ run[s].selected \notin Listing(<<RESISTANCE_DIR>>))
               => (/\ out'[s].result = "FileNotFoundError"
                   /\ out'[s].loaded = <<>>
                   /\ out'[s].handed = <<>>
                   /\ pc'[s] = "idle")
         /\ (/\ pc[s] = "cmp_listed" /\ pc'[s] # "cmp_listed"
             /\ \E i \in 1..Len(run[s].selection) :
                   run[s].selection[i] \notin Listing(<<SCENARIO_DIRS[run[s].module]>>))
               => (/\ out'[s].result = "FileNotFoundError"
                   /\ out'[s].scenarios = <<>>
                   /\ out'[s].handed = <<>>)]_vars

\* the engine's load of a file that was listed and then removed
C3_Removed ==
    /\ out[1].op = "load" /\ out[1].result = "FileNotFoundError" /\ out[1].name = X_JSON
    /\ X_JSON \notin Listing(<<RESISTANCE_DIR>>)

\* C4 (SpecStore).  Distinct modules have distinct directories, and the steps
\* of a save in the Resistance Engine leave the files of every other module's
\* directory as they were.
C4_Disjoint ==
    /\ \A m1, m2 \in DOMAIN SCENARIO_DIRS : m1 # m2 => SCENARIO_DIRS[m1] # SCENARIO_DIRS[m2]
    /\ [][\A s \in live :
            (pc[s] \in {"eng_inputs", "eng_dumped"} /\ pc'[s] # pc[s])
               => \A m \in DOMAIN SCENARIO_DIRS \ {ENGINE} :
                     FilesIn(fs', <<SCENARIO_DIRS[m]>>) = FilesIn(fs, <<SCENARIO_DIRS[m]>>)]_vars

\* C5 (SpecRuns).  Every step leaves a session's run history as it was or
\* appends exactly one record at its end.
C5_AppendOnly ==
    [][\A s \in live :
         \/ simulations'[s] = simulations[s]
         \/ /\ Len(simulations'[s]) = Len(simulations[s]) + 1
            /\ SubSeq(simulations'[s], 1, Len(simulations[s])) = simulations[s]]_vars

\* a history of two runs from two modules
C5_TwoRuns ==
    /\ Len(simulations[1]) = 2
    /\ simulations[1][1].module = HOST
    /\ simulations[1][2].module = VR

\* a recorded run is offered by a comparison when one of the offered files
\* holds the run's parameters
C6_Offers(o, r) ==
    \E f \in o.offered :
       LET t == OpenRead(f, SCENARIO_DIRS[o.module])
           j == JsonLoad(t.text)
       IN t.ok /\ j.ok /\ DOMAIN j.val = DOMAIN r.params /\ j.val = r.params

\* C6 (SpecSession).  When the Scenario Comparator is opened for a module,
\* every run of that module in the session's run history is offered.
C6_RunsOffered ==
    \A s \in live :
       out[s].op = "compare" =>
          \A i \in 1..Len(simulations[s]) :
             simulations[s][i].module = out[s].module => C6_Offers(out[s], simulations[s][i])

\* C7 (SpecConc).  When two sessions have each completed a save to the same
\* file, the file holds exactly the parameter set of one of them.
C7_LastWriteWins ==
    \A s1, s2 \in live :
       (/\ s1 # s2
        /\ pc[s1] = "idle" /\ pc[s2] = "idle"
        /\ out[s1].op = "save" /\ out[s1].result = "saved"
        /\ out[s2].op = "save" /\ out[s2].result = "saved"
        /\ out[s1].path = out[s2].path)
          => LET j == JsonLoad(fs[out[s1].path])
             IN j.ok /\ (j.val = out[s1].handed[1].p \/ j.val = out[s2].handed[1].p)

\* the parameters of one model call are in range
C8_InRange(p) ==
    /\ \A k \in {"drug_pressure", "adherence", "host_activity", "gene_effect"} \cap DOMAIN p :
          p[k].ty = "float" /\ 0 <= p[k].n /\ p[k].n <= ONE
    /\ "duration" \in DOMAIN p => p["duration"].n > 0

\* C8 (SpecForeign).  Every parameter set handed to a model has drug_pressure,
\* adherence, host_activity and gene_effect in [0,1] and duration > 0.
C8_ParameterRange ==
    \A s \in live : \A i \in 1..Len(out[s].handed) : C8_InRange(out[s].handed[i].p)

\* the comparator handed a host-protein model the parameters of z.json
C8_FromFile ==
    /\ out[1].op = "compare" /\ out[1].result = "compared" /\ out[1].module = HOST
    /\ Len(out[1].handed) = 1
    /\ out[1].scenarios[1]["filename"] = PyStr(Z_JSON)
    /\ out[1].handed[1].p["drug_pressure"] = out[1].scenarios[1]["drug_pressure"]

\* drug_pressure * adherence and the gene suppression of a parameter set
C9_DrugEff(p) == p["drug_pressure"].n * p["adherence"].n

C9_GeneSup(p) == IF p["gene_editing"] = PyBool(TRUE) THEN p["gene_effect"].n ELSE 0

\* C9 (SpecRate).  beta_eff is positive; of two parameter sets with the same
\* gene_sup the one with the larger drug_eff has no larger beta_eff, and of
\* two with the same drug_eff the one with the larger gene_sup has no larger
\* beta_eff; without gene editing beta_eff does not depend on gene_effect.
C9_BetaEff ==
    /\ \A i \in 1..Len(rm.r) : rm.r[i].beta_eff > 0
    /\ Len(rm.r) = 2 =>
          LET p1 == rm.p[1]
              p2 == rm.p[2]
              b1 == rm.r[1].beta_eff
              b2 == rm.r[2].beta_eff
          IN /\ (C9_GeneSup(p1) = C9_GeneSup(p2) /\ C9_DrugEff(p1) <= C9_DrugEff(p2)) => b2 <= b1
             /\ (C9_DrugEff(p1) = C9_DrugEff(p2) /\ C9_GeneSup(p1) <= C9_GeneSup(p2)) => b2 <= b1
             /\ (/\ p1["gene_editing"] = PyBool(FALSE) /\ p2["gene_editing"] = PyBool(FALSE)
                 /\ p1["drug_pressure"] = p2["drug_pressure"]
                 /\ p1["adherence"] = p2["adherence"]) => b1 = b2

\* both rates mapped, the second with more drug effect and more gene
\* suppression and a strictly smaller beta_eff
C9_Decreases ==
    /\ Len(rm.r) = 2
    /\ C9_DrugEff(rm.p[1]) < C9_DrugEff(rm.p[2])
    /\ C9_GeneSup(rm.p[1]) < C9_GeneSup(rm.p[2])
    /\ rm.r[2].beta_eff < rm.r[1].beta_eff

\* the multipliers of the flags of p that are set, taken in the order `order`
RECURSIVE C10_Selected(_, _)
C10_Selected(p, order) ==
    IF order = <<>> THEN <<>>
    ELSE (IF p[Head(order)] = PyBool(TRUE)
          THEN <<CASE Head(order) = "diabetes" -> 120
                   [] Head(order) = "hypertension" -> 115
                   [] Head(order) = "obesity" -> 110>>
          ELSE <<>>) \o C10_Selected(p, Tail(order))

RECURSIVE C10_Product(_)
C10_Product(ms) == IF ms = <<>> THEN 1 ELSE Head(ms) * C10_Product(Tail(ms))

RECURSIVE C10_Pow100(_)
C10_Pow100(k) == IF k = 0 THEN 1 ELSE 100 * C10_Pow100(k - 1)

C10_Orders ==
    { <<"diabetes", "hypertension", "obesity">>, <<"diabetes", "obesity", "hypertension">>,
      <<"hypertension", "diabetes", "obesity">>, <<"hypertension", "obesity", "diabetes">>,
      <<"obesity", "diabetes", "hypertension">>, <<"obesity", "hypertension", "diabetes">> }

\* C10 (SpecRate).  comorbidity_boost is the product of the multipliers of the
\* flags that are set (1.20, 1.15, 1.10; 1.0 for none), in whatever order they
\* are multiplied, and production_rate is 5000 times it.
C10_ComorbidityBoost ==
    \A i \in 1..Len(rm.r) :
       /\ \A order \in C10_Orders :
             LET ms == C10_Selected(rm.p[i], order)
                 k == Len(ms)
             IN \* boost / 100^2 = product / 100^k, cleared of fractions
                rm.r[i].comorbidity_boost * C10_Pow100(IF k > 2 THEN k - 2 ELSE 0)
                   = C10_Product(ms) * C10_Pow100(IF k < 2 THEN 2 - k ELSE 0)
       /\ rm.r[i].production_rate = 5000 * rm.r[i].comorbidity_boost

\* diabetes and hypertension: the boost is 1.38
C10_DiabetesHypertension ==
    /\ Len(rm.r) >= 1
    /\ rm.p[1]["diabetes"] = PyBool(TRUE)
    /\ rm.p[1]["hypertension"] = PyBool(TRUE)
    /\ rm.p[1]["obesity"] = PyBool(FALSE)
    /\ rm.r[1].comorbidity_boost = 13800

\* C11 (SpecRuns).  Every trajectory recorded by a host-protein run has 300
\* time points, strictly increasing, the first 0 and the last the run's
\* duration, and T, I and V sequences as long as the time sequence.
C11_TimeSequence ==
    \A s \in live : \A i \in 1..Len(simulations[s]) :
       LET r == simulations[s][i]
           t == r.data.t
       IN r.module = HOST =>
             /\ Len(t) = 300
             /\ \A j \in 1..(Len(t) - 1) : t[j] < t[j + 1]
             /\ t[1] = 0
             \* the time unit of the model is 1/299 day
             /\ t[Len(t)] = 299 * r.params["duration"].n
             /\ Len(r.data.T) = Len(t) /\ Len(r.data.I) = Len(t) /\ Len(r.data.V) = Len(t)

\* two host-protein runs of different durations are recorded
C11_TwoDurations ==
    /\ Len(simulations[1]) = 2
    /\ simulations[1][1].module = HOST /\ simulations[1][2].module = HOST
    /\ simulations[1][1].params["duration"].n = 120
    /\ simulations[1][2].params["duration"].n = 300
    /\ simulations[1][2].data.t[2] = 300

C13_Less(a, b) == a.s = b.s /\ a.s > 0 /\ a.e < b.e

\* C13 (SpecRes).  For every drug, positive dp and mu and adherence < 1, the
\* resistance sequence has exactly duration points, starts at 1 - adherence
\* and is strictly increasing in t.
C13_Resistance ==
    \A i \in 1..Len(rm.r) :
       LET p == rm.p[i].params
       IN /\ Len(rm.r[i]) = Len(p["selected_drugs"].l)
          /\ \A j \in 1..Len(rm.r[i]) :
                LET y == rm.r[i][j].y
                    dr == rm.p[i].draws[j]
                IN (/\ p["drug_pressure"].n * dr.dp > 0
                    /\ p["mutation_rate"].n * dr.mu > 0
                    /\ p["adherence"].n < ONE)
                      => /\ Len(y) = p["duration"].n
                         \* exp(0) * s = s, and s is 1 - adherence
                         /\ y[1].e = 0 /\ y[1].s = ONE - p["adherence"].n
                         /\ \A k \in 1..(Len(y) - 1) : C13_Less(y[k], y[k + 1])

\* two curves of 200 points were computed with different draws
C13_TwoCurves ==
    /\ Len(rm.r) = 1 /\ Len(rm.r[1]) = 2
    /\ Len(rm.r[1][1].y) = 200
    /\ rm.p[1].params["adherence"].n = 0
    /\ rm.r[1][1].y[200].e < rm.r[1][2].y[200].e

\* the parameters of the Host-Protein module that equal those of scenario
\* sc as the comparator reads it, with the comparator's horizon
C14_ModuleParams(sc) ==
    LET h == CmpHanded(HOST, sc)[1].p
    IN [HostDefaults EXCEPT !["host_activity"] = h["host_activity"],
                            !["drug_pressure"] = h["drug_pressure"],
                            !["adherence"] = h["adherence"],
                            !["gene_effect"] = h["gene_effect"],
                            !["gene_editing"] = h["gene_editing"],
                            !["diabetes"] = Get(sc, "diabetes", PyBool(FALSE)),
                            !["hypertension"] = Get(sc, "hypertension", PyBool(FALSE)),
                            !["obesity"] = Get(sc, "obesity", PyBool(FALSE)),
                            !["duration"] = h["duration"]]

\* C14 (SpecSession).  The curve the comparator draws for a host-protein
\* scenario is the virus curve V(t) a run of the Host-Protein module records
\* for the same parameters and horizon: the same times, as many values,
\* and the same first value V0 = 0.1.
C14_SameModel ==
    \A s \in live :
       (out[s].op = "compare" /\ out[s].module = HOST /\ out[s].result = "compared")
          => \A i \in 1..Len(out[s].traces) :
                LET tr == out[s].traces[i]
                    run_ == Trajectory(C14_ModuleParams(out[s].scenarios[i]))
                IN /\ Len(tr.x) = Len(run_.t)
                   /\ \A j \in 1..Len(tr.x) : 299 * tr.x[j] = run_.t[j]
                   /\ Len(tr.y) = Len(run_.V)
                   \* 0.1 in the unit of the comparator's curve, 1/160000000
                   /\ run_.V[1] = Exact(1) /\ tr.y[1].e = 0 /\ tr.y[1].s = 16000000

\* the scenario of a comparator run that a trace was drawn for
C15_ScenarioOf(s, tr) ==
    CHOOSE sc \in Range(out[s].scenarios) : sc["filename"].l = tr.name.file

\* the days 0, 1, ..., d - 1
C15_Days(d) == [j \in 1..d |-> j - 1]

\* C15: every host-protein-suppression trace of a comparator run covers the
\* days 0..99 whatever duration its scenario stores, and every resistance
\* trace covers the days 0..d-1, d being the duration its scenario stores,
\* or 100 when it stores none.
C15_Horizon ==
    \A s \in Sessions :
       out[s].result \in {"compared", "exported"} =>
          \A i \in 1..Len(out[s].traces) :
             LET tr == out[s].traces[i]
                 sc == C15_ScenarioOf(s, tr)
                 d == IF "duration" \in DOMAIN sc THEN sc["duration"].n ELSE 100
             IN /\ Len(tr.y) = Len(tr.x) \/ out[s].module = VR
                /\ out[s].module = HOST => tr.x = C15_Days(100)
                /\ out[s].module = ENGINE => tr.x = C15_Days(d)

\* a resistance comparison of a scenario that stores duration 200 with one
\* that stores none
C15_TwoHorizons ==
    \E s \in Sessions :
       /\ out[s].result = "compared"
       /\ out[s].module = ENGINE
       /\ \E i, j \in 1..Len(out[s].traces) :
             /\ Len(out[s].traces[i].x) = 200
             /\ Len(out[s].traces[j].x) = 100
             /\ "duration" \notin DOMAIN C15_ScenarioOf(s, out[s].traces[j])

\* the pieces of a token sequence between the tokens `sep`
RECURSIVE C16_Split(_, _, _, _)
C16_Split(toks, sep, cur, acc) ==
    IF toks = <<>> THEN Append(acc, cur)
    ELSE IF Head(toks).t = sep THEN C16_Split(Tail(toks), sep, <<>>, Append(acc, cur))
    ELSE C16_Split(Tail(toks), sep, Append(cur, Head(toks)), acc)

\* the objects of an exported JSON array, each read back with JsonLoad
C16_JsonRecords(toks) ==
    LET inner == SubSeq(toks, 2, Len(toks) - 1)
        parts == Front(C16_Split(inner, "}", <<>>, <<>>))
        obj(k) == (IF k = 1 THEN parts[k] ELSE Tail(parts[k])) \o <<Tok("}")>>
    IN [k \in 1..Len(parts) |-> JsonLoad(obj(k))]

\* the value a cell of the exported table holds
C16_CellValue(tok) ==
    IF tok.t = "quoted" THEN PyList(tok.s) ELSE [ty |-> tok.t, n |-> tok.n, l |-> <<>>]

\* the rows of an exported table, each as the record of its non-empty cells
C16_CsvRecords(toks) ==
    LET lines == Front(C16_Split(toks, "\n", <<>>, <<>>))
        header == C16_Split(lines[1], ",", <<>>, <<>>)
        cells(r) == C16_Split(lines[r + 1], ",", <<>>, <<>>)
        row(r) == IF Len(cells(r)) # Len(header) THEN [ok |-> FALSE, val |-> <<>>]
                  ELSE [ok |-> TRUE,
                        val |-> [k \in {header[c][1].s : c \in {c \in 1..Len(header) : cells(r)[c] # <<>>}}
                                   |-> LET c == CHOOSE c \in 1..Len(header) : header[c][1].s = k
                                       IN C16_CellValue(cells(r)[c][1])]]
    IN [r \in 1..(Len(lines) - 1) |-> row(r)]

\* the same keys and the same values; a whole number may be written as a
\* float of the same value
C16_SameRecord(rec, stored) ==
    /\ DOMAIN rec = DOMAIN stored
    /\ \A k \in DOMAIN stored :
          /\ rec[k].n = stored[k].n
          /\ rec[k].l = stored[k].l
          /\ rec[k].ty = stored[k].ty \/ (stored[k].ty = "int" /\ rec[k].ty = "float")

C19_EveryNameTraced ==
    \A s \in Sessions :
       (out[s].result \in {"compared", "exported"} /\ out[s].module \in {HOST, ENGINE}) =>
          \A i \in 1..Len(out[s].scenarios) :
             \E j \in 1..Len(out[s].traces) :
                out[s].traces[j].name.file = out[s].scenarios[i]["filename"].l

\* a resistance comparison of a scenario saved with no drug selected
C19_NoDrugsCompared ==
    \E s \in Sessions :
       /\ out[s].result = "compared"
       /\ out[s].module = ENGINE
       /\ \E i \in 1..Len(out[s].scenarios) : out[s].scenarios[i]["selected_drugs"].l = <<>>

\* a complete JSON object: the whole text of some dump of a parameter set
C17_Complete(text) == \E w \in EngineCandidates : text = JsonDump(w)

C20_ParamsOf(r, hp, vp) ==
    IF "alias" \in DOMAIN r.params THEN (IF r.module = HOST THEN hp ELSE vp) ELSE r.params

\* C20 (SpecRuns).  Whatever a later script run does (widgets moved, another
\* run recorded), the params and the data read from each record already in
\* the run history are the same after the step as before it.
C20_RecordImmutable ==
    [][\A s \in live : \A i \in 1..Len(simulations[s]) :
          /\ i <= Len(simulations'[s])
          /\ simulations'[s][i].data = simulations[s][i].data
          /\ C20_ParamsOf(simulations'[s][i], hostParams'[s], vrParams'[s])
                = C20_ParamsOf(simulations[s][i], hostParams[s], vrParams[s])]_vars

\* a host-protein run is in the history, the widgets have been moved since
\* and a second run has been recorded
C20_MovedSince ==
    /\ Len(simulations[1]) = 2
    /\ simulations[1][1].module = HOST
    /\ simulations[1][2].module = HOST
    /\ hostParams[1] # C20_ParamsOf(simulations[1][1], hostParams[1], vrParams[1])
    /\ simulations[1][2].params # simulations[1][1].params

\* C21 (SpecRuns).  In every session the record at position k of the run
\* history has id k, whichever module appended it, so the ids of a history
\* are pairwise different.
C21_PositionalIds ==
    \A s \in live :
       /\ \A k \in 1..Len(simulations[s]) : simulations[s][k].id = k
       /\ \A j, k \in 1..Len(simulations[s]) :
             simulations[s][j].id = simulations[s][k].id => j = k

\* a history that begins with a knowledge-graph capture and goes on with a
\* run of another module
C21_MixedOrder ==
    /\ Len(simulations[1]) = 2
    /\ simulations[1][1].module = KG
    /\ simulations[1][2].module \in {HOST, VR}
    /\ simulations[1][2].id = 2

====
